---- MODULE Spec2Model ----
(***************************************************************************)
(* Model of run_exp (src/main.py): the experiment loop over object names,  *)
(* trials and simulation steps, and the perception pass that turns the     *)
(* RGB / depth / segmentation renders of a frame into per-object pose      *)
(* records stored in all_object_poses.                                     *)
(*                                                                         *)
(* Floating point values are modelled by integers (scene units); every     *)
(* division is the integer division of the corresponding float formula.    *)
(***************************************************************************)
EXTENDS Integers, Sequences, FiniteSets, TLC

(* ------------------------------------------------------------------ *)
(* Bounds of the model                                                 *)
(* ------------------------------------------------------------------ *)

\* image height and width of the renders (rows, columns)
H == 4
W == 5
\* number of trials per object name (range(10) in the source)
NumTrials == 1
\* number of loop iterations per trial (range(10000) in the source)
NumSteps == 101

(* ------------------------------------------------------------------ *)
(* Program constants                                                   *)
(* ------------------------------------------------------------------ *)

\* line 63: the perception pass runs when i % 100 = 0
Period == 100
\* line 145: minimum number of points of a reconstructed cloud
MinPoints == 10
\* line 128: depth_trunc of the RGBD image
DepthTrunc == 1000

\* None, the value of 'dimensions' in the fallback record (line 235);
\* extents are 3-vectors, so the empty tuple differs from every extent
None == <<>>

\* np.eye(3)
Identity3 == <<<<1, 0, 0>>, <<0, 1, 0>>, <<0, 0, 1>>>>

\* a rotation of a quarter turn about the z axis
RotZ90 == <<<<0, -1, 0>>, <<1, 0, 0>>, <<0, 0, 1>>>>

(* ------------------------------------------------------------------ *)
(* Inputs supplied by the collaborators (simulation, file system)      *)
(* ------------------------------------------------------------------ *)

\* lines 26-28: the names of the Ycb* entries of the object data path
obj_names == <<"YcbBanana", "YcbBanana_0">>

\* line 31: sim.projection_matrix, 16 values, row-major
projection_matrix == <<2, 0, 1, 0,   0, 1, 1, 0,   0, 0, -1, -1,   0, 0, -1, 0>>

\* pixels <<row, column>> of an image, and their row-major index (from 0)
Pix == (0..(H - 1)) \X (0..(W - 1))

Flat(px) == px[1] * W + px[2]

PixSeq == [k \in 1..(H * W) |-> <<(k - 1) \div W, (k - 1) % W>>]

\* segmentation renders: the first 'cut' pixels show id a, the last pixel
\* shows id c, the one before it shows the background id 0 when 'zero', the
\* others show id b
Seg(a, b, c, zero, cut) ==
    [px \in Pix |-> IF Flat(px) < cut THEN a
                    ELSE IF Flat(px) = H * W - 1 THEN c
                    ELSE IF zero /\ Flat(px) = H * W - 2 THEN 0
                    ELSE b]

\* depth renders: the first z pixels have depth 0 (nothing seen); when 'far',
\* the next one lies at the truncation distance
Depth(z, far) ==
    [px \in Pix |-> IF Flat(px) < z THEN 0
                    ELSE IF far /\ Flat(px) = z THEN DepthTrunc
                    ELSE 2 + (px[1] % 2)]

\* colour renders, three channels of 0..255
Rgb(k) ==
    [px \in Pix |-> <<(Flat(px) * k) % 256, (Flat(px) + k) % 256, 255 - Flat(px)>>]

SegImages ==
    {Seg(a, b, c, zero, cut) : a \in {0, 1}, b \in {0, 1, 2}, c \in {-1, 2},
                               zero \in BOOLEAN, cut \in 0..(H * W - 1)}

DepthImages == {Depth(z, far) : z \in {0, 1}, far \in BOOLEAN}

RgbImages == {Rgb(k) : k \in {0, 37}}

\* sim.stat_viewMat, 16 values: the identity, a rigid transform
\* (determinant 1) and a matrix that has no inverse
ViewIdentity == <<1, 0, 0, 0,   0, 1, 0, 0,   0, 0, 1, 0,   0, 0, 0, 1>>

ViewRigid == <<0, -1, 0, 0,   1, 0, 0, 0,   0, 0, 1, 0,   1, 2, 3, 1>>

ViewSingular == <<1, 0, 0, 0,   0, 1, 0, 0,   1, 1, 0, 0,   0, 0, 0, 1>>

ViewMats == {ViewIdentity, ViewRigid, ViewSingular}

\* the renders of the whole-run specification: a scene with two objects (one
\* of MinPoints pixels, one of two pixels) in front of both background
\* values, and a scene without any object
RunSeg ==
    [px \in Pix |-> IF Flat(px) < MinPoints THEN 1
                    ELSE IF Flat(px) < MinPoints + 2 THEN 2
                    ELSE IF Flat(px) = H * W - 1 THEN -1
                    ELSE 0]

RunRenders ==
    {[rgb |-> Rgb(37), depth |-> Depth(0, FALSE), seg |-> RunSeg],
     [rgb |-> Rgb(37), depth |-> Depth(0, FALSE), seg |-> Seg(0, 0, -1, FALSE, 0)]}

RunViewMats == {ViewRigid, ViewSingular}

(* ------------------------------------------------------------------ *)
(* Pure helpers                                                        *)
(* ------------------------------------------------------------------ *)

\* dict assignment d[k] = v
Put(f, k, v) == [x \in DOMAIN f \cup {k} |-> IF x = k THEN v ELSE f[x]]

\* the empty dict
EmptyDict == <<>>

\* np.array(v).reshape(4, 4): row-major
Reshape4x4(v) == [r \in 1..4 |-> [c \in 1..4 |-> v[4 * (r - 1) + c]]]

\* line 33-36: fx, fy, cx, cy read from the projection matrix
fx == Reshape4x4(projection_matrix)[1][1]

fy == Reshape4x4(projection_matrix)[2][2]

cx == Reshape4x4(projection_matrix)[1][3]

cy == Reshape4x4(projection_matrix)[2][3]

Det3(a) ==
      a[1][1] * (a[2][2] * a[3][3] - a[2][3] * a[3][2])
    - a[1][2] * (a[2][1] * a[3][3] - a[2][3] * a[3][1])
    + a[1][3] * (a[2][1] * a[3][2] - a[2][2] * a[3][1])

\* the 3x3 matrix left when row r and column c of a 4x4 matrix are deleted
Minor(M, r, c) ==
    [i \in 1..3 |-> [j \in 1..3 |->
        M[IF i < r THEN i ELSE i + 1][IF j < c THEN j ELSE j + 1]]]

Sign(k) == IF k % 2 = 0 THEN 1 ELSE -1

Det4(M) ==
      M[1][1] * Det3(Minor(M, 1, 1)) - M[1][2] * Det3(Minor(M, 1, 2))
    + M[1][3] * Det3(Minor(M, 1, 3)) - M[1][4] * Det3(Minor(M, 1, 4))

\* np.linalg.inv raises LinAlgError on a singular matrix
IsSingular(M) == Det4(M) = 0

\* np.linalg.inv: adjugate over determinant (the view matrices of the model
\* have determinant 1 or -1, so the division is exact)
Inverse(M) ==
    [r \in 1..4 |-> [c \in 1..4 |->
        (Sign(r + c) * Det3(Minor(M, c, r))) \div Det4(M)]]

\* np.dot(M, x) for a 4x4 matrix and a 4-vector
MatVec(M, x) ==
    [r \in 1..4 |-> M[r][1] * x[1] + M[r][2] * x[2] + M[r][3] * x[3] + M[r][4] * x[4]]

\* M[:3, :3]
Block3(M) == [r \in 1..3 |-> [c \in 1..3 |-> M[r][c]]]

\* np.dot(A, B) for 3x3 matrices
MatMul3(A, B) ==
    [r \in 1..3 |-> [c \in 1..3 |->
        A[r][1] * B[1][c] + A[r][2] * B[2][c] + A[r][3] * B[3][c]]]

\* np.dot(stat_viewMat_inv, np.append(x, 1.0))[:3]
ToWorld(inv, x) ==
    LET h == MatVec(inv, <<x[1], x[2], x[3], 1>>)
    IN  <<h[1], h[2], h[3]>>

RECURSIVE SortSet(_)
SortSet(S) ==
    IF S = {} THEN <<>>
    ELSE LET m == CHOOSE x \in S : \A y \in S : x <= y
         IN  <<m>> \o SortSet(S \ {m})

\* np.unique(seg): the sorted distinct values of the image
Unique(seg) == SortSet({seg[px] : px \in DOMAIN seg})

\* the background test with '<' written for '<=': id 0 is taken for an object
IsBackgroundStrict(id) == id < 0

\* line 101: background ids (0 or -1) are skipped
IsBackground(id) == id <= 0

\* line 107: mask = (seg_s == obj_id)
ObjectMask(seg, id) == [px \in DOMAIN seg |-> seg[px] = id]

\* line 110: np.any(mask)
AnyTrue(m) == \E px \in DOMAIN m : m[px]

\* the masking statements without np.copy: rgb_masked is rgb_s itself, so
\* the writes to its channels land in the source image
MaskRGBDInPlace(rgb, depth, m) ==
    LET masked == [px \in DOMAIN rgb |->
                      [c \in 1..3 |-> IF m[px] THEN rgb[px][c] ELSE 0]]
    IN  [rgb_s        |-> masked,
         depth_s      |-> depth,
         rgb_masked   |-> masked,
         depth_masked |-> [px \in DOMAIN depth |-> IF m[px] THEN depth[px] ELSE 0]]

\* lines 115-121: the arrays after the masking statements. rgb_masked starts
\* as a copy of rgb_s and has each of its three channels overwritten by
\* np.where(mask, rgb_s[:,:,c], 0); depth_masked is np.where(mask, depth_s, 0).
\* The sources are only read.
MaskRGBD(rgb, depth, m) ==
    [rgb_s        |-> rgb,
     depth_s      |-> depth,
     rgb_masked   |-> [px \in DOMAIN rgb |->
                          [c \in 1..3 |-> IF m[px] THEN rgb[px][c] ELSE 0]],
     depth_masked |-> [px \in DOMAIN depth |-> IF m[px] THEN depth[px] ELSE 0]]

\* lines 124-130: the float depth image of the RGBD image; depth_scale is 1
\* and a depth at or beyond depth_trunc is set to 0
TruncDepth(d) == IF d >= DepthTrunc THEN 0 ELSE d

\* pinhole back-projection of pixel <<v, u>> at depth d
BackProject(px, d) ==
    <<((px[2] - cx) * d) \div fx, ((px[1] - cy) * d) \div fy, d>>

\* line 133: create_from_rgbd_image, one point per pixel of positive depth,
\* in row-major order
CloudFromDepth(depth) ==
    LET valid == SelectSeq(PixSeq, LAMBDA px : TruncDepth(depth[px]) > 0)
    IN  [k \in 1..Len(valid) |-> BackProject(valid[k], TruncDepth(depth[valid[k]]))]

\* lines 140-142: the points equal to the origin are removed
DropOrigin(points) == SelectSeq(points, LAMBDA q : q # <<0, 0, 0>>)

\* the threshold test off by one below: a cloud of 9 points passes
TooFewPointsBelow(n) == n < MinPoints - 1

\* the threshold test with '<=' written for '<': a cloud of 10 points fails
TooFewPointsInclusive(n) == n <= MinPoints

\* line 145: len(pcd_object.points) < 10
TooFewPoints(n) == n < MinPoints

\* the cloud run_exp reconstructs for object id from the renders (lines 107-142)
ReconstructedCloud(rgb, depth, seg, id) ==
    DropOrigin(CloudFromDepth(MaskRGBD(rgb, depth, ObjectMask(seg, id)).depth_masked))

RECURSIVE SumAxis(_, _)
SumAxis(points, a) ==
    IF points = <<>> THEN 0 ELSE Head(points)[a] + SumAxis(Tail(points), a)

\* line 163: np.mean(points_array, axis=0)
Centroid(points) ==
    [a \in 1..3 |-> SumAxis(points, a) \div Len(points)]

\* extent of the points along axis a
Spread(points, a) ==
    LET vals == {points[k][a] : k \in 1..Len(points)}
        hi == CHOOSE x \in vals : \A y \in vals : y <= x
        lo == CHOOSE x \in vals : \A y \in vals : x <= y
    IN  hi - lo

\* line 171: the box get_oriented_bounding_box returns when it does not
\* raise: first axis along the larger of the x and y spreads
ObbFit(points) ==
    IF Spread(points, 1) >= Spread(points, 2)
    THEN [R |-> Identity3,
          extent |-> <<Spread(points, 1), Spread(points, 2), Spread(points, 3)>>]
    ELSE [R |-> RotZ90,
          extent |-> <<Spread(points, 2), Spread(points, 1), Spread(points, 3)>>]

\* lines 178-184: the record stored when the box was fitted
PoseRecord(cc, cw, inv, obb) ==
    [position_camera    |-> cc,
     orientation_camera |-> obb.R,
     position_world     |-> cw,
     orientation_world  |-> MatMul3(Block3(inv), obb.R),
     dimensions         |-> obb.extent]

\* the fallback record with the camera-frame centroid stored as the world
\* position
FallbackRecordNoTransform(cc, cw, inv) ==
    [position_camera    |-> cc,
     position_world     |-> cc,
     orientation_camera |-> Identity3,
     orientation_world  |-> MatMul3(Block3(inv), Identity3),
     dimensions         |-> None]

\* lines 230-236: the record stored by the except clause
FallbackRecord(cc, cw, inv) ==
    [position_camera    |-> cc,
     position_world     |-> cw,
     orientation_camera |-> Identity3,
     orientation_world  |-> MatMul3(Block3(inv), Identity3),
     dimensions         |-> None]

Digits == <<"0", "1", "2", "3", "4", "5", "6", "7", "8", "9">>

\* str(n) of a natural number
RECURSIVE Str(_)
Str(n) == IF n < 10 THEN Digits[n + 1] ELSE Str(n \div 10) \o Digits[(n % 10) + 1]

\* the key without the step index
KeyWithoutStep(name, t, step) == name \o "_" \o Str(t)

\* line 244: f"{obj_name}_{tstep}_{i}"
Key(name, t, step) == name \o "_" \o Str(t) \o "_" \o Str(step)

\* the frame test off by one: the pass runs on iterations 99, 199, ...
SkipFrameOffByOne(step) == (step + 1) % Period # 0

\* line 63: i % 100 != 0, the iteration only steps the simulation
SkipFrame(step) == step % Period # 0

\* line 153: voxel_down_sample(voxel_size=0.01). The points of the model lie
\* on the unit grid, so each voxel holds one distinct point: one point is
\* kept per distinct position
VoxelDownSample(points) ==
    LET keep == SortSet({k \in 1..Len(points) :
                            \A j \in 1..(k - 1) : points[j] # points[k]})
    IN  [n \in 1..Len(keep) |-> points[keep[n]]]

\* lines 152-157: what the two library calls of the try block can do:
\* voxel_down_sample raises, remove_statistical_outlier raises, the outlier
\* removal keeps every downsampled point, or it keeps none
FilterOutcomes == {"voxel_raise", "outlier_raise", "keep", "empty"}

\* lines 170-236: where the try block can be left: get_oriented_bounding_box
\* raises (171), paint_uniform_color raises (207), the OrientedBoundingBox
\* constructor raises (220), or nothing raises
PoseOutcomes == {"obb_raise", "paint_raise", "box_raise", "ok"}

\* 'break' written for 'continue': the object loop is left
BreakObjects == "store"

\* lines 112, 147, 157: 'continue', the object loop goes on with the next id
ContinueObjects == "next_obj"

(* ------------------------------------------------------------------ *)
(* State                                                               *)
(* ------------------------------------------------------------------ *)

VARIABLES
    pc,                       \* position in run_exp
    nidx, tstep, i,           \* loop variables: index of obj_name, tstep, i
    sim_steps,                \* number of sim.step() calls so far (line 60)
    rgb_s, depth_s, seg_s,    \* the renders of the frame (line 69)
    stat_viewMat_array,       \* line 72
    stat_viewMat_inv,         \* line 73
    unique_ids, k,            \* line 86 and the position of the object loop
    obj_id,                   \* line 100
    mask,                     \* line 107
    rgb_masked, depth_masked, \* lines 115-121
    pcd_object,               \* the points of pcd_object
    timestep_object_poses,    \* line 90: the Frame Result being built
    visualization_geometries, \* line 93
    all_object_poses,         \* line 38: the Run Result
    nstored,                  \* number of executions of line 244 so far
    outcome,                  \* per id of this frame, how its processing ended
    masks,                    \* per id of this frame, the mask built at line 107
    returned                  \* <<value>> once run_exp has returned

loopvars == <<nidx, tstep, i>>

framevars == <<rgb_s, depth_s, seg_s, stat_viewMat_array>>

objvars == <<mask, rgb_masked, depth_masked, pcd_object>>

vars == <<pc, nidx, tstep, i, sim_steps, rgb_s, depth_s, seg_s,
          stat_viewMat_array, stat_viewMat_inv, unique_ids, k, obj_id, mask,
          rgb_masked, depth_masked, pcd_object, timestep_object_poses,
          visualization_geometries, all_object_poses, nstored, outcome, masks,
          returned>>

\* a local variable that is not bound yet
Unset == <<>>

\* the locals of the perception pass before the first frame
LocalsUnset ==
    /\ stat_viewMat_inv = Unset
    /\ unique_ids = Unset
    /\ k = 0
    /\ obj_id = 0
    /\ mask = Unset
    /\ rgb_masked = Unset
    /\ depth_masked = Unset
    /\ pcd_object = Unset
    /\ timestep_object_poses = Unset
    /\ visualization_geometries = Unset
    /\ outcome = EmptyDict
    /\ masks = EmptyDict

\* lines 22-41: the state when the loops are entered
Init ==
    /\ pc = "trial"
    /\ nidx = 1
    /\ tstep = 0
    /\ i = 0
    /\ sim_steps = 0
    /\ rgb_s = Unset
    /\ depth_s = Unset
    /\ seg_s = Unset
    /\ stat_viewMat_array = Unset
    /\ LocalsUnset
    /\ all_object_poses = EmptyDict
    /\ nstored = 0
    /\ returned = <<>>

\* the end of the body of 'for i in range(10000)': the three nested loops
\* (lines 40, 41, 58) move to the next iteration, or are left (line 283)
Advance ==
    IF i + 1 < NumSteps
    THEN /\ i' = i + 1
         /\ pc' = "step"
         /\ UNCHANGED <<nidx, tstep>>
    ELSE IF tstep + 1 < NumTrials
    THEN /\ tstep' = tstep + 1
         /\ pc' = "trial"
         /\ UNCHANGED <<nidx, i>>
    ELSE IF nidx < Len(obj_names)
    THEN /\ nidx' = nidx + 1
         /\ tstep' = 0
         /\ pc' = "trial"
         /\ UNCHANGED i
    ELSE /\ pc' = "close"
         /\ UNCHANGED loopvars

\* lines 42-58: sim.reset(obj_name), the prints, and the start of the i loop
ResetTrial ==
    /\ pc = "trial"
    /\ i' = 0
    /\ pc' = "step"
    /\ UNCHANGED <<nidx, tstep, sim_steps, framevars, stat_viewMat_inv,
                   unique_ids, k, obj_id, objvars, timestep_object_poses,
                   visualization_geometries, all_object_poses, nstored,
                   outcome, masks, returned>>

\* lines 60-64: sim.step(), then 'continue' unless i is a multiple of 100
SimStep ==
    /\ pc = "step"
    /\ sim_steps' = sim_steps + 1
    /\ IF SkipFrame(i)
       THEN Advance
       ELSE /\ pc' = "render"
            /\ UNCHANGED loopvars
    /\ UNCHANGED <<framevars, stat_viewMat_inv, unique_ids, k, obj_id, objvars,
                   timestep_object_poses, visualization_geometries,
                   all_object_poses, nstored, outcome, masks, returned>>

\* lines 69-72: the renders and the view matrix of the frame
Render ==
    /\ pc = "render"
    /\ \E r \in RunRenders, v \in RunViewMats :
          /\ rgb_s' = r.rgb
          /\ depth_s' = r.depth
          /\ seg_s' = r.seg
          /\ stat_viewMat_array' = Reshape4x4(v)
    /\ pc' = "invert"
    /\ UNCHANGED <<loopvars, sim_steps, stat_viewMat_inv, unique_ids, k, obj_id,
                   objvars, timestep_object_poses, visualization_geometries,
                   all_object_poses, nstored, outcome, masks, returned>>

\* lines 73-97: np.linalg.inv (whose LinAlgError nothing catches), the ids
\* of the frame, an empty Frame Result and the list of geometries
Invert ==
    /\ pc = "invert"
    /\ IF IsSingular(stat_viewMat_array)
       THEN /\ pc' = "raised"
            /\ UNCHANGED <<stat_viewMat_inv, unique_ids, k,
                           timestep_object_poses, visualization_geometries,
                           outcome, masks>>
       ELSE /\ stat_viewMat_inv' = Inverse(stat_viewMat_array)
            /\ unique_ids' = Unique(seg_s)
            /\ k' = 1
            /\ timestep_object_poses' = EmptyDict
            /\ visualization_geometries' = <<"world_frame">>
            /\ outcome' = EmptyDict
            /\ masks' = EmptyDict
            /\ pc' = "next_obj"
    /\ UNCHANGED <<loopvars, sim_steps, framevars, obj_id, objvars,
                   all_object_poses, nstored, returned>>

\* lines 100-104: the next id of unique_ids; ids <= 0 are skipped
NextObject ==
    /\ pc = "next_obj"
    /\ IF k > Len(unique_ids)
       THEN /\ pc' = "store"
            /\ UNCHANGED <<k, obj_id>>
       ELSE /\ obj_id' = unique_ids[k]
            /\ k' = k + 1
            /\ pc' = IF IsBackground(unique_ids[k]) THEN ContinueObjects ELSE "mask"
    /\ UNCHANGED <<loopvars, sim_steps, framevars, stat_viewMat_inv, unique_ids,
                   objvars, timestep_object_poses, visualization_geometries,
                   all_object_poses, nstored, outcome, masks, returned>>

\* lines 107-112: the mask of the object; an empty mask skips the object
MakeMask ==
    /\ pc = "mask"
    /\ mask' = ObjectMask(seg_s, obj_id)
    /\ masks' = Put(masks, obj_id, mask')
    /\ IF ~AnyTrue(mask')
       THEN /\ outcome' = Put(outcome, obj_id, "EmptyMask")
            /\ pc' = ContinueObjects
       ELSE /\ pc' = "extract"
            /\ UNCHANGED outcome
    /\ UNCHANGED <<loopvars, sim_steps, framevars, stat_viewMat_inv, unique_ids,
                   k, obj_id, rgb_masked, depth_masked, pcd_object,
                   timestep_object_poses, visualization_geometries,
                   all_object_poses, nstored, returned>>

\* lines 115-121: the masked colour and depth images
Extract ==
    /\ pc = "extract"
    /\ LET r == MaskRGBD(rgb_s, depth_s, mask)
       IN  /\ rgb_s' = r.rgb_s
           /\ depth_s' = r.depth_s
           /\ rgb_masked' = r.rgb_masked
           /\ depth_masked' = r.depth_masked
    /\ pc' = "cloud"
    /\ UNCHANGED <<loopvars, sim_steps, seg_s, stat_viewMat_array,
                   stat_viewMat_inv, unique_ids, k, obj_id, mask, pcd_object,
                   timestep_object_poses, visualization_geometries,
                   all_object_poses, nstored, outcome, masks, returned>>

\* lines 124-147: the cloud of the object, without its origin points; a
\* cloud of fewer than 10 points skips the object. (Line 140 binds the name
\* 'mask' to the per-point filter, which nothing reads afterwards; the
\* variable mask keeps the pixel mask.)
Reconstruct ==
    /\ pc = "cloud"
    /\ pcd_object' = DropOrigin(CloudFromDepth(depth_masked))
    /\ IF TooFewPoints(Len(pcd_object'))
       THEN /\ outcome' = Put(outcome, obj_id, "InsufficientPoints")
            /\ pc' = ContinueObjects
       ELSE /\ pc' = "filter"
            /\ UNCHANGED outcome
    /\ UNCHANGED <<loopvars, sim_steps, framevars, stat_viewMat_inv, unique_ids,
                   k, obj_id, mask, rgb_masked, depth_masked,
                   timestep_object_poses, visualization_geometries,
                   all_object_poses, nstored, masks, returned>>

\* lines 152-157: downsampling and outlier removal; an exception skips the
\* object
FilterCloud ==
    /\ pc = "filter"
    /\ \E o \in FilterOutcomes :
          IF o \in {"voxel_raise", "outlier_raise"}
          THEN /\ outcome' = Put(outcome, obj_id, "FilterFailed")
               /\ pc' = ContinueObjects
               /\ pcd_object' = IF o = "voxel_raise" THEN pcd_object
                                ELSE VoxelDownSample(pcd_object)
          ELSE /\ pcd_object' = IF o = "keep" THEN VoxelDownSample(pcd_object)
                                ELSE <<>>
               /\ pc' = "pose"
               /\ UNCHANGED outcome
    /\ UNCHANGED <<loopvars, sim_steps, framevars, stat_viewMat_inv, unique_ids,
                   k, obj_id, mask, rgb_masked, depth_masked,
                   timestep_object_poses, visualization_geometries,
                   all_object_poses, nstored, masks, returned>>

\* lines 160-236: centroid, oriented bounding box, the record of the object
\* and its geometries. Whatever raises inside the try block (lines 171-225)
\* is caught at line 227, where the fallback record is stored.
Pose ==
    /\ pc = "pose"
    /\ IF Len(pcd_object) = 0
       THEN /\ outcome' = Put(outcome, obj_id, "EmptyFiltered")
            /\ UNCHANGED <<timestep_object_poses, visualization_geometries>>
       ELSE LET centroid_camera == Centroid(pcd_object)
                centroid_world == ToWorld(stat_viewMat_inv, centroid_camera)
                obb == ObbFit(pcd_object)
                stored == Put(timestep_object_poses, obj_id,
                              PoseRecord(centroid_camera, centroid_world,
                                         stat_viewMat_inv, obb))
                fallback == FallbackRecord(centroid_camera, centroid_world,
                                           stat_viewMat_inv)
            IN  \E o \in PoseOutcomes :
                   CASE o = "obb_raise" ->
                          /\ timestep_object_poses' =
                                Put(timestep_object_poses, obj_id, fallback)
                          /\ outcome' = Put(outcome, obj_id, "ObbFittingFailed")
                          /\ UNCHANGED visualization_geometries
                     [] o = "paint_raise" ->
                          /\ timestep_object_poses' = Put(stored, obj_id, fallback)
                          /\ outcome' = Put(outcome, obj_id, "VisualizationFailed")
                          /\ UNCHANGED visualization_geometries
                     [] o = "box_raise" ->
                          /\ timestep_object_poses' = Put(stored, obj_id, fallback)
                          /\ outcome' = Put(outcome, obj_id, "VisualizationFailed")
                          /\ visualization_geometries' =
                                visualization_geometries
                                   \o <<"pcd_world", "obj_frame">>
                     [] o = "ok" ->
                          /\ timestep_object_poses' = stored
                          /\ outcome' = Put(outcome, obj_id, "Ok")
                          /\ visualization_geometries' =
                                visualization_geometries
                                   \o <<"pcd_world", "obj_frame", "obb_world">>
    /\ pc' = "next_obj"
    /\ UNCHANGED <<loopvars, sim_steps, framevars, stat_viewMat_inv, unique_ids,
                   k, obj_id, objvars, all_object_poses, nstored, masks,
                   returned>>

\* lines 239-244: the Frame Result is stored under the key of the frame
Store ==
    /\ pc = "store"
    /\ all_object_poses' =
          Put(all_object_poses, Key(obj_names[nidx], tstep, i),
              timestep_object_poses)
    /\ nstored' = nstored + 1
    /\ pc' = "visualize"
    /\ UNCHANGED <<loopvars, sim_steps, framevars, stat_viewMat_inv, unique_ids,
                   k, obj_id, objvars, timestep_object_poses,
                   visualization_geometries, outcome, masks, returned>>

\* lines 247-281: the viewer window and the control prints, then the next
\* iteration of the loops
Visualize ==
    /\ pc = "visualize"
    /\ Advance
    /\ UNCHANGED <<sim_steps, framevars, stat_viewMat_inv, unique_ids, k,
                   obj_id, objvars, timestep_object_poses,
                   visualization_geometries, all_object_poses, nstored,
                   outcome, masks, returned>>

\* lines 283-285: sim.close() and the return of all_object_poses
Return ==
    /\ pc = "close"
    /\ returned' = <<all_object_poses>>
    /\ pc' = "done"
    /\ UNCHANGED <<loopvars, sim_steps, framevars, stat_viewMat_inv, unique_ids,
                   k, obj_id, objvars, timestep_object_poses,
                   visualization_geometries, all_object_poses, nstored,
                   outcome, masks>>

Next ==
    \/ ResetTrial
    \/ SimStep
    \/ Render
    \/ Invert
    \/ NextObject
    \/ MakeMask
    \/ Extract
    \/ Reconstruct
    \/ FilterCloud
    \/ Pose
    \/ Store
    \/ Visualize
    \/ Return

\* the whole run of run_exp
Spec == Init /\ [][Next]_vars

\* The perception pass of one frame, for every render of SegImages,
\* DepthImages, RgbImages and ViewMats: the first frame of the run (first
\* name, tstep 0, i 0), from line 73 to line 244.
InitFrame ==
    /\ pc = "invert"
    /\ nidx = 1
    /\ tstep = 0
    /\ i = 0
    /\ sim_steps = 1
    /\ rgb_s \in RgbImages
    /\ depth_s \in DepthImages
    /\ seg_s \in SegImages
    /\ stat_viewMat_array \in {Reshape4x4(v) : v \in ViewMats}
    /\ LocalsUnset
    /\ all_object_poses = EmptyDict
    /\ nstored = 0
    /\ returned = <<>>

NextFrame ==
    \/ Invert
    \/ NextObject
    \/ MakeMask
    \/ Extract
    \/ Reconstruct
    \/ FilterCloud
    \/ Pose
    \/ Store

SpecFrame == InitFrame /\ [][NextFrame]_vars

(* ------------------------------------------------------------------ *)
(* Properties                                                          *)
(* ------------------------------------------------------------------ *)

\* the key of the frame of the current iteration
CurKey == Key(obj_names[nidx], tstep, i)

\* the ids of a segmentation image, and those of objects
SegIds(seg) == {seg[px] : px \in DOMAIN seg}

ForegroundIds(seg) == {id \in SegIds(seg) : id > 0}

\* number of points of the cloud reconstructed for id in the current frame
NumPoints(id) == Len(ReconstructedCloud(rgb_s, depth_s, seg_s, id))

\* positions of run_exp inside the object loop of a frame
InObjectLoop == pc \in {"next_obj", "mask", "extract", "cloud", "filter", "pose", "store"}

\* position right after line 244: the Frame Result of the frame is stored
FrameStored == pc = "visualize"

\* C1: for every id of the segmentation image of a processed frame, if the
\* cloud reconstructed for it has fewer than 10 points once the origin
\* points are removed, the Frame Result has no entry for that id, neither
\* while it is built nor when it is stored.
C1_TooFewPointsAbsent ==
    /\ InObjectLoop =>
          \A id \in SegIds(seg_s) :
             NumPoints(id) < 10 => id \notin DOMAIN timestep_object_poses
    /\ FrameStored =>
          \A id \in SegIds(seg_s) :
             NumPoints(id) < 10 => id \notin DOMAIN all_object_poses[CurKey]

\* a stored frame where an object of at least 10 pixels has between 1 and 9
\* points and is absent, while another object has a record
C1_Witness ==
    /\ FrameStored
    /\ \E id \in ForegroundIds(seg_s) :
          /\ Cardinality({px \in Pix : seg_s[px] = id}) >= 10
          /\ NumPoints(id) \in 1..9
          /\ id \notin DOMAIN all_object_poses[CurKey]
    /\ DOMAIN all_object_poses[CurKey] # {}

\* C2 as stated: the keys of the stored Frame Result are exactly the object
\* ids whose reconstructed cloud has at least 10 points.
C2_KeysExactlyPassing ==
    FrameStored =>
       DOMAIN all_object_poses[CurKey]
          = {id \in ForegroundIds(seg_s) : NumPoints(id) >= 10}

\* C2 amended: the keys of the stored Frame Result are exactly the object
\* ids whose reconstructed cloud has at least 10 points and whose
\* downsampling and outlier removal neither raised nor left an empty cloud.
C2_KeysPassingAndFiltered ==
    FrameStored =>
       DOMAIN all_object_poses[CurKey]
          = {id \in ForegroundIds(seg_s) :
                /\ NumPoints(id) >= 10
                /\ id \in DOMAIN outcome
                /\ outcome[id] \notin {"FilterFailed", "EmptyFiltered"}}

\* a stored frame with two objects of at least 10 points each, one with a
\* record and one whose filtering raised
C2_Witness ==
    /\ FrameStored
    /\ \E a, b \in ForegroundIds(seg_s) :
          /\ NumPoints(a) >= 10
          /\ NumPoints(b) >= 10
          /\ a \in DOMAIN all_object_poses[CurKey]
          /\ b \notin DOMAIN all_object_poses[CurKey]
          /\ outcome[b] = "FilterFailed"

\* C3 as stated: when the view matrix of a frame has no inverse, the frame
\* is given up and the loops go on with the next iteration (or return the
\* Run Result after the last one).
C3_SingularFrameSkipped ==
    [][(pc = "invert" /\ IsSingular(stat_viewMat_array))
          => pc' \in {"step", "trial", "close"}]_vars

\* the frames of a whole run, as <<index of the name, tstep, i>>
AllFrames ==
    {f \in (1..Len(obj_names)) \X (0..(NumTrials - 1)) \X (0..(NumSteps - 1)) :
        f[3] % Period = 0}

\* C4: a failure of one object (empty mask, fewer than 10 points, filter
\* failure, OBB failure) never aborts processing: when the object loop of a
\* frame is over every object id of the frame has been processed, an abort
\* of the run is only ever due to a singular view matrix, and a run that
\* returns has stored every frame.
C4_ObjectFailureIsLocal ==
    /\ pc \in {"store", "visualize"} => DOMAIN outcome = ForegroundIds(seg_s)
    /\ pc = "raised" => IsSingular(stat_viewMat_array)
    /\ pc = "done" =>
          \A f \in AllFrames :
             Key(obj_names[f[1]], f[2], f[3]) \in DOMAIN all_object_poses

\* a later frame of the run (second name, i = 100) is stored after its
\* first object failed in the filter and its second object was processed,
\* an earlier frame having produced no record at all
C4_Witness ==
    /\ FrameStored
    /\ nidx = 2
    /\ i = Period
    /\ DOMAIN outcome = {1, 2}
    /\ outcome[1] = "FilterFailed"
    /\ Key(obj_names[1], 0, 0) \in DOMAIN all_object_poses
    /\ all_object_poses[Key(obj_names[1], 0, 0)] = EmptyDict

\* the ids of the frame whose OBB fitting raised
ObbFailed == {id \in DOMAIN outcome : outcome[id] = "ObbFittingFailed"}

\* C5: when OBB fitting fails for an object whose filtered cloud is not
\* empty, nothing is raised and the Frame Result holds a record of the
\* object with the identity as orientation_camera, no dimensions, and the
\* centroid of the filtered cloud as position_camera and (transformed by the
\* inverse view matrix) as position_world; the stored Frame Result holds
\* that record.
C5_ObbFallbackRecord ==
    /\ (pc = "next_obj" /\ obj_id \in ObbFailed) =>
          /\ Len(pcd_object) > 0
          /\ obj_id \in DOMAIN timestep_object_poses
          /\ timestep_object_poses[obj_id].orientation_camera = Identity3
          /\ timestep_object_poses[obj_id].dimensions = None
          /\ timestep_object_poses[obj_id].position_camera = Centroid(pcd_object)
          /\ timestep_object_poses[obj_id].position_world
                = ToWorld(Inverse(stat_viewMat_array), Centroid(pcd_object))
    /\ FrameStored =>
          \A id \in ObbFailed :
             /\ id \in DOMAIN all_object_poses[CurKey]
             /\ all_object_poses[CurKey][id] = timestep_object_poses[id]
             /\ all_object_poses[CurKey][id].orientation_camera = Identity3
             /\ all_object_poses[CurKey][id].dimensions = None

\* a stored frame, under a view matrix that moves the centroid, with the
\* fallback record of an object whose OBB fitting raised
C5_Witness ==
    /\ FrameStored
    /\ \E id \in ObbFailed :
          /\ all_object_poses[CurKey][id].dimensions = None
          /\ all_object_poses[CurKey][id].position_world
                # all_object_poses[CurKey][id].position_camera

\* C6 as stated: every record has a position_world, and its dimensions are
\* absent only if OBB fitting itself failed for the object.
C6_FallbackOnlyOnObbFailure ==
    InObjectLoop =>
       \A id \in DOMAIN timestep_object_poses :
          /\ Len(timestep_object_poses[id].position_world) = 3
          /\ timestep_object_poses[id].dimensions = None => id \in ObbFailed

C8_MasksPartitionForeground ==
    pc \in {"store", "visualize"} =>
       /\ DOMAIN masks = ForegroundIds(seg_s)
       /\ \A px \in Pix :
             Cardinality({id \in DOMAIN masks : masks[id][px]})
                = IF seg_s[px] > 0 THEN 1 ELSE 0

\* the object loop is over for an image that shows two objects and both
\* background values
C8_Witness ==
    /\ pc = "store"
    /\ DOMAIN masks = {1, 2}
    /\ \E px \in Pix : seg_s[px] = 0
    /\ \E px \in Pix : seg_s[px] = -1

\* C9: the masking step leaves the RGB and depth renders unchanged, and the
\* masked images have the shape of the renders, equal them where the mask
\* is true and are zero (three channels, and depth) where it is false.
C9_MaskingExact ==
    [][pc = "extract" =>
          /\ rgb_s' = rgb_s
          /\ depth_s' = depth_s
          /\ DOMAIN rgb_masked' = DOMAIN rgb_s
          /\ DOMAIN depth_masked' = DOMAIN depth_s
          /\ \A px \in DOMAIN rgb_s :
                /\ DOMAIN rgb_masked'[px] = DOMAIN rgb_s[px]
                /\ rgb_masked'[px] = IF mask[px] THEN rgb_s[px] ELSE <<0, 0, 0>>
                /\ depth_masked'[px] = IF mask[px] THEN depth_s[px] ELSE 0]_vars

\* masked images of a mask that keeps some pixels and zeroes others whose
\* colour and depth are not zero
C9_Witness ==
    /\ pc = "cloud"
    /\ \E px \in Pix : mask[px] /\ rgb_masked[px] = rgb_s[px] /\ depth_masked[px] > 0
    /\ \E px \in Pix :
          /\ ~mask[px]
          /\ depth_s[px] # 0
          /\ \A c \in 1..3 : rgb_s[px][c] # 0
          /\ rgb_masked[px] = <<0, 0, 0>>
          /\ depth_masked[px] = 0

\* positions of run_exp inside the perception pass of the current iteration
InFrame == pc \in {"render", "invert", "raised"} \/ InObjectLoop

\* number of loop iterations begun before the current position
IterationsBegun ==
    LET trials == (nidx - 1) * NumTrials + tstep
    IN  CASE pc = "trial" -> trials * NumSteps
          [] pc = "step" -> trials * NumSteps + i
          [] pc \in {"close", "done"} -> Len(obj_names) * NumTrials * NumSteps
          [] OTHER -> trials * NumSteps + i + 1

\* the key of the iteration of rank g (from 0) of the whole run
KeyOfIteration(g) ==
    Key(obj_names[((g \div NumSteps) \div NumTrials) + 1],
        (g \div NumSteps) % NumTrials, g % NumSteps)

\* C10: the simulation is stepped on every loop iteration, the perception
\* pass runs only on iterations whose index is a multiple of 100, and the Run
\* Result holds exactly one entry per such iteration that has completed, and
\* none for any other iteration.
C10_OneEntryPerHundredthStep ==
    /\ sim_steps = IterationsBegun
    /\ InFrame \/ FrameStored => i % 100 = 0
    /\ DOMAIN all_object_poses
          = {KeyOfIteration(g) :
                g \in {h \in 0..(sim_steps - 1) :
                          /\ (h % NumSteps) % 100 = 0
                          /\ (h < sim_steps - 1 \/ ~InFrame)}}
    /\ nstored = Cardinality(DOMAIN all_object_poses)

\* the run has returned, its simulation stepped on every iteration, with an
\* empty Frame Result for a frame at i = 100 and a record in another frame
C10_Witness ==
    /\ pc = "done"
    /\ sim_steps = Len(obj_names) * NumTrials * NumSteps
    /\ sim_steps > nstored
    /\ all_object_poses[Key(obj_names[1], 0, 100)] = EmptyDict
    /\ all_object_poses[Key(obj_names[1], 0, 0)] # EmptyDict

====
